---- MODULE Spec2Model ----
(***************************************************************************)
(* Model of dashboard.py, the Streamlit employee analytics dashboard.      *)
(*                                                                         *)
(* Streamlit runs the whole script from top to bottom once per user        *)
(* interaction (file upload, file removal, selector change).  One action   *)
(* of the model is one such interaction together with the script run it    *)
(* triggers.  The script run is RunScript: the statements of the script    *)
(* applied in order to a record of the script's locals and of the page     *)
(* rendered so far, stopping at st.stop() or at the first statement that   *)
(* raises.                                                                 *)
(*                                                                         *)
(* pandas and plotly are modelled by what the calls used here do on the    *)
(* modelled columns (pandas 1.x API, the one the script is written for:    *)
(* value_counts().reset_index() yields the columns "index" and             *)
(* "LPA_Profile").  Department and Gender cells are strings; LPA_Profile,  *)
(* Satisfaction, PerformanceScore and Attrition cells are numbers, and an  *)
(* empty LPA_Profile cell is read by read_csv as NaN.                      *)
(***************************************************************************)
EXTENDS Integers, Sequences, FiniteSets, TLC

\* ------------------------------------------------------------------ bounds
MaxRows == 2
MaxSchemaRows == 1
MaxFilterChanges == 2

\* ------------------------------------------------------- values and columns
\* numpy.nan, what read_csv stores for an empty numeric cell; also the value
\* of Series.mean() over no values.  Numbers of the model are >= 0.
NaN == 0 - 1
\* a KPI or figure the pass has not computed
Unset == 0 - 2

DeptValues == {"Eng", "Sales"}
GenderValues == {"F", "M"}
ProfileValues == {1, 2, NaN}
SatisfactionValues == {4}
PerformanceValues == {3}
AttritionValues == {1}

\* the 15 columns of the correlation heatmap
num_cols ==
  {"Age", "TenureMonths", "PerformanceScore", "Satisfaction", "Engagement",
   "Motivation", "Stress", "WorkLifeBalance", "OvertimeHours",
   "TrainingHoursLastYear", "AbsenteeismDays", "PeerRating",
   "ManagerRating", "ProjectLoad", "LPA_Profile"}

\* every column the script reads without checking for it
RequiredColumns ==
  num_cols \cup {"Department", "Gender", "EmployeeID"}

AllColumns == RequiredColumns \cup {"Attrition"}

\* Python's str ordering on the strings of the model, as ranks
StrRank(s) ==
  CASE s = "All" -> 1
    [] s = "Eng" -> 2
    [] s = "F" -> 3
    [] s = "M" -> 4
    [] s = "Sales" -> 5

\* ------------------------------------------------------------ uploaded files
NoFile == [present |-> FALSE, columns |-> {}, rows |-> <<>>]

\* one parsed line of the file; a column the file does not have carries a
\* fixed filler that no statement reads
RowsOf(columns) ==
  [Department : IF "Department" \in columns THEN DeptValues ELSE {""},
   Gender : IF "Gender" \in columns THEN GenderValues ELSE {""},
   LPA_Profile : IF "LPA_Profile" \in columns THEN ProfileValues ELSE {NaN},
   Satisfaction : IF "Satisfaction" \in columns THEN SatisfactionValues ELSE {NaN},
   PerformanceScore : IF "PerformanceScore" \in columns THEN PerformanceValues ELSE {NaN},
   Attrition : IF "Attrition" \in columns THEN AttritionValues ELSE {NaN}]

TablesOf(columns, n) ==
  UNION {[1..k -> RowsOf(columns)] : k \in 0..n}

FilesOf(columns, n) ==
  {[present |-> TRUE, columns |-> columns, rows |-> t] : t \in TablesOf(columns, n)}

\* column sets of the files tried: complete, one column absent, and two
\* pairs of absent columns
SchemaChoices ==
  {AllColumns \ {c} : c \in AllColumns}
    \cup {AllColumns \ {"Satisfaction", "Stress"},
          AllColumns \ {"Motivation", "Attrition"}}

Files ==
  FilesOf(AllColumns, MaxRows)
    \cup UNION {FilesOf(columns, MaxSchemaRows) : columns \in SchemaChoices}

\* --------------------------------------------------------- pandas helpers
\* the cells of one column, in row order
Column(rows, c) == [i \in 1..Len(rows) |-> rows[i][c]]

RECURSIVE Contains(_, _)
Contains(seq, v) ==
  IF seq = <<>> THEN FALSE
  ELSE IF Head(seq) = v THEN TRUE ELSE Contains(Tail(seq), v)

\* Series.unique(): the distinct values in order of first appearance
RECURSIVE UniqueFrom(_, _)
UniqueFrom(seq, acc) ==
  IF seq = <<>> THEN acc
  ELSE IF Contains(acc, Head(seq)) THEN UniqueFrom(Tail(seq), acc)
  ELSE UniqueFrom(Tail(seq), Append(acc, Head(seq)))

Unique(seq) == UniqueFrom(seq, <<>>)

\* insertion of v into a sequence sorted by StrRank, after its equals
RECURSIVE InsertSorted(_, _)
InsertSorted(seq, v) ==
  IF seq = <<>> THEN <<v>>
  ELSE IF StrRank(v) < StrRank(Head(seq)) THEN <<v>> \o seq
  ELSE <<Head(seq)>> \o InsertSorted(Tail(seq), v)

\* Python's sorted() on a list of strings
RECURSIVE SortedFrom(_, _)
SortedFrom(seq, acc) ==
  IF seq = <<>> THEN acc
  ELSE SortedFrom(Tail(seq), InsertSorted(acc, Head(seq)))

Sorted(seq) == SortedFrom(seq, <<>>)

\* df[df[c] == v]: boolean indexing keeps the matching rows in order
RECURSIVE BoolIndex(_, _, _)
BoolIndex(rows, c, v) ==
  IF rows = <<>> THEN <<>>
  ELSE IF Head(rows)[c] = v
    THEN <<Head(rows)>> \o BoolIndex(Tail(rows), c, v)
    ELSE BoolIndex(Tail(rows), c, v)

\* the non-NaN cells of a numeric column (skipna / dropna)
RECURSIVE DropNa(_)
DropNa(seq) ==
  IF seq = <<>> THEN <<>>
  ELSE IF Head(seq) = NaN THEN DropNa(Tail(seq))
  ELSE <<Head(seq)>> \o DropNa(Tail(seq))

RECURSIVE Sum(_)
Sum(seq) == IF seq = <<>> THEN 0 ELSE Head(seq) + Sum(Tail(seq))

\* how many cells of seq equal v
RECURSIVE Count(_, _)
Count(seq, v) ==
  IF seq = <<>> THEN 0
  ELSE (IF Head(seq) = v THEN 1 ELSE 0) + Count(Tail(seq), v)

Range(seq) == {seq[i] : i \in 1..Len(seq)}

\* Mean2f that reports 0.00 for a column without values
Mean2f_ZeroOnEmpty(seq) ==
  LET vals == DropNa(seq)
      n == Len(vals)
  IN IF n = 0 THEN 0 ELSE (200 * Sum(vals) + n) \div (2 * n)

\* f"{series.mean():.2f}": the mean of the non-NaN cells in hundredths,
\* rounded to the nearest; NaN ("nan") when there is no such cell
Mean2f(seq) ==
  LET vals == DropNa(seq)
      n == Len(vals)
  IN IF n = 0 THEN NaN ELSE (200 * Sum(vals) + n) \div (2 * n)

\* Series.nunique(): distinct non-NaN values
NUnique(seq) == Cardinality(Range(DropNa(seq)))

\* Series.value_counts(): one (value, count) pair per distinct non-NaN value
ValueCounts(seq) == {<<v, Count(seq, v)>> : v \in Range(DropNa(seq))}

\* the slices of px.pie(names=c) / the series or boxes of a figure split by
\* the string column c: one (value, rows) pair per value present
GroupSizes(seq) == {<<v, Count(seq, v)>> : v \in Range(seq)}

\* groupby("LPA_Profile")["Attrition"].mean() * 100: one (profile, percent)
\* pair per non-NaN profile (the mean in hundredths is the mean times 100)
AttritionByProfile(rows) ==
  {<<p, Mean2f(Column(BoolIndex(rows, "LPA_Profile", p), "Attrition"))>> :
     p \in Range(DropNa(Column(rows, "LPA_Profile")))}

\* ------------------------------------------------------------ the script
\* The locals of one script run and the page it has rendered so far.  trace
\* lists, in order, the statements carried out; status is "running",
\* "stopped" (st.stop()), "raised" (an unhandled exception, at raisedAt) or
\* "done" (the last statement was reached).
StartPass ==
  [trace |-> <<>>, status |-> "running", raisedAt |-> "none",
   df |-> NoFile,
   dept_options |-> <<>>, gender_options |-> <<>>,
   dept_filter |-> "All", gender_filter |-> "All",
   df_filtered |-> <<>>,
   total |-> Unset, avg_satisfaction |-> Unset, avg_performance |-> Unset,
   profiles |-> Unset,
   fig1 |-> {}, fig2 |-> {}, fig3 |-> Unset, fig4 |-> {}, fig5 |-> {},
   fig6 |-> {}, fig7 |-> {}]

Emit(s, what) == [s EXCEPT !.trace = Append(@, what)]

\* df[c] on a column the table lacks raises KeyError (pandas) or ValueError
\* (plotly express); the run ends there
Raise(s, what) == [s EXCEPT !.status = "raised", !.raisedAt = what]

Has(s, columns) == columns \subseteq s.df.columns

\* a statement that reads `columns` of the table: it raises when one of them
\* is absent, else it is carried out
Access(s, what, columns, after) ==
  IF Has(s, columns) THEN Emit(after, what) ELSE Raise(s, what)

\* st.selectbox: the value held by the widget when it is one of the
\* options, else the first option
SelectBox(options, widget) ==
  IF widget \in Range(options) THEN widget ELSE options[1]

\* DataUpload without st.stop(): the message is shown and the run goes on
DataUpload_NoStop(s, file) ==
  IF ~file.present THEN Emit(s, "info") ELSE Emit([s EXCEPT !.df = file], "read_csv")

\* DataUpload with a schema check after read_csv
DataUpload_Validated(s, file) ==
  IF ~file.present
    THEN [Emit(s, "info") EXCEPT !.status = "stopped"]
    ELSE IF RequiredColumns \subseteq file.columns
      THEN Emit([s EXCEPT !.df = file], "read_csv")
      ELSE Raise([s EXCEPT !.df = file], "read_csv")

\* lines 19-27
DataUpload(s, file) ==
  IF ~file.present
    THEN [Emit(s, "info") EXCEPT !.status = "stopped"]
    ELSE Emit([s EXCEPT !.df = file], "read_csv")

\* Options without sorted(): the values in order of first appearance
Options_Unsorted(rows, c) == <<"All">> \o Unique(Column(rows, c))

\* Options from a fixed list of known values instead of the table's
Options_AllKnown(rows, c) ==
  <<"All">> \o Sorted(IF c = "Department" THEN <<"Eng", "Sales">> ELSE <<"F", "M">>)

\* ["All"] + sorted(df[c].unique())
Options(rows, c) == <<"All">> \o Sorted(Unique(Column(rows, c)))

\* line 36
DeptSelector(s, widget) ==
  IF ~Has(s, {"Department"}) THEN Raise(s, "dept_filter")
  ELSE LET options == Options(s.df.rows, "Department")
       IN Emit([s EXCEPT !.dept_options = options,
                         !.dept_filter = SelectBox(options, widget)],
               "dept_filter")

\* line 37
GenderSelector(s, widget) ==
  IF ~Has(s, {"Gender"}) THEN Raise(s, "gender_filter")
  ELSE LET options == Options(s.df.rows, "Gender")
       IN Emit([s EXCEPT !.gender_options = options,
                         !.gender_filter = SelectBox(options, widget)],
               "gender_filter")

\* ApplyFilters whose Gender filter indexes the table instead of the view
\* narrowed by Department
ApplyFilters_GenderOnCopy(rows, dept, gender) ==
  LET copy == rows
      byDept == IF dept # "All" THEN BoolIndex(copy, "Department", dept) ELSE copy
  IN IF gender # "All" THEN BoolIndex(copy, "Gender", gender) ELSE byDept

\* ApplyFilters whose copy loses the first row of the table
ApplyFilters_SkipFirst(rows, dept, gender) ==
  LET copy == IF rows = <<>> THEN rows ELSE Tail(rows)
      byDept == IF dept # "All" THEN BoolIndex(copy, "Department", dept) ELSE copy
  IN IF gender # "All" THEN BoolIndex(byDept, "Gender", gender) ELSE byDept

\* lines 39-45 on the rows: a copy of the table, narrowed by each selector
\* that is not "All"
ApplyFilters(rows, dept, gender) ==
  LET copy == rows
      byDept == IF dept # "All" THEN BoolIndex(copy, "Department", dept) ELSE copy
  IN IF gender # "All" THEN BoolIndex(byDept, "Gender", gender) ELSE byDept

\* the table a script run filters: df as read from the uploaded file
FilterInput(s) == s.df.rows

\* lines 39-45
Filter(s) ==
  LET needed == (IF s.dept_filter # "All" THEN {"Department"} ELSE {})
                  \cup (IF s.gender_filter # "All" THEN {"Gender"} ELSE {})
  IN Access(s, "df_filtered", needed,
            [s EXCEPT !.df_filtered =
               ApplyFilters(FilterInput(s), s.dept_filter, s.gender_filter)])

\* line 52
TotalMetric(s) ==
  Emit([s EXCEPT !.total = Len(s.df_filtered)], "metric_total")

\* line 53
SatisfactionMetric(s) ==
  Access(s, "metric_satisfaction", {"Satisfaction"},
         [s EXCEPT !.avg_satisfaction =
            Mean2f(Column(s.df_filtered, "Satisfaction"))])

\* line 54
PerformanceMetric(s) ==
  Access(s, "metric_performance", {"PerformanceScore"},
         [s EXCEPT !.avg_performance =
            Mean2f(Column(s.df_filtered, "PerformanceScore"))])

\* line 55
ProfilesMetric(s) ==
  Access(s, "metric_profiles", {"LPA_Profile"},
         [s EXCEPT !.profiles = NUnique(Column(s.df_filtered, "LPA_Profile"))])

\* lines 62, 76, 88, 104, 118, 132, 154: st.subheader
Subheader(s, what) == Emit(s, what)

\* lines 64-71: bars of value_counts() of LPA_Profile
Chart1(s) ==
  Access(s, "chart1", {"LPA_Profile"},
         [s EXCEPT !.fig1 = ValueCounts(Column(s.df_filtered, "LPA_Profile"))])

\* lines 78-83: pie slices by Department
Chart2(s) ==
  Access(s, "chart2", {"Department"},
         [s EXCEPT !.fig2 = GroupSizes(Column(s.df_filtered, "Department"))])

\* lines 90-99: one point per row
Chart3(s) ==
  Access(s, "chart3",
         {"PerformanceScore", "Satisfaction", "LPA_Profile", "Engagement",
          "EmployeeID", "Department"},
         [s EXCEPT !.fig3 = Len(s.df_filtered)])

\* lines 106-113: one histogram series per Gender
Chart4(s) ==
  Access(s, "chart4", {"Stress", "Gender"},
         [s EXCEPT !.fig4 = GroupSizes(Column(s.df_filtered, "Gender"))])

\* lines 120-127: one box per Department
Chart5(s) ==
  Access(s, "chart5", {"Department", "WorkLifeBalance"},
         [s EXCEPT !.fig5 = GroupSizes(Column(s.df_filtered, "Department"))])

\* lines 134-148: the correlation matrix, as its row/column labels
Chart6(s) ==
  Access(s, "chart6", num_cols, [s EXCEPT !.fig6 = num_cols])

\* Chart7 without the test for the Attrition column
Chart7_Unchecked(s) ==
  Access(Subheader(s, "subheader7"), "chart7", {"LPA_Profile", "Attrition"},
         [Subheader(s, "subheader7") EXCEPT
            !.fig7 = AttritionByProfile(s.df_filtered)])

\* lines 153-170
Chart7(s) ==
  IF "Attrition" \in s.df.columns
    THEN Access(Subheader(s, "subheader7"), "chart7", {"LPA_Profile", "Attrition"},
                [Subheader(s, "subheader7") EXCEPT
                   !.fig7 = AttritionByProfile(s.df_filtered)])
    ELSE Emit(s, "warning")

\* line 172
Success(s) == [Emit(s, "success") EXCEPT !.status = "done"]

\* the next statement is carried out only while the run is still going:
\* st.stop() and an unhandled exception end the run
Running(s) == s.status = "running"

\* the statements of the script after the upload, in order
Statements ==
  <<"dept_filter", "gender_filter", "df_filtered",
    "metric_total", "metric_satisfaction", "metric_performance",
    "metric_profiles",
    "subheader1", "chart1", "subheader2", "chart2", "subheader3", "chart3",
    "subheader4", "chart4", "subheader5", "chart5", "subheader6", "chart6",
    "attrition", "success">>

\* what each statement does
Exec(s, stmt, deptWidget, genderWidget) ==
  CASE stmt = "dept_filter" -> DeptSelector(s, deptWidget)
    [] stmt = "gender_filter" -> GenderSelector(s, genderWidget)
    [] stmt = "df_filtered" -> Filter(s)
    [] stmt = "metric_total" -> TotalMetric(s)
    [] stmt = "metric_satisfaction" -> SatisfactionMetric(s)
    [] stmt = "metric_performance" -> PerformanceMetric(s)
    [] stmt = "metric_profiles" -> ProfilesMetric(s)
    [] stmt = "chart1" -> Chart1(s)
    [] stmt = "chart2" -> Chart2(s)
    [] stmt = "chart3" -> Chart3(s)
    [] stmt = "chart4" -> Chart4(s)
    [] stmt = "chart5" -> Chart5(s)
    [] stmt = "chart6" -> Chart6(s)
    [] stmt = "attrition" -> Chart7(s)
    [] stmt = "success" -> Success(s)
    [] OTHER -> Subheader(s, stmt)

\* the statements carried out one after the other while the run is going
RECURSIVE Body(_, _, _, _)
Body(s, stmts, deptWidget, genderWidget) ==
  IF stmts = <<>> \/ ~Running(s) THEN s
  ELSE Body(Exec(s, Head(stmts), deptWidget, genderWidget), Tail(stmts),
            deptWidget, genderWidget)

\* one run of the script, top to bottom
RunScript(file, deptWidget, genderWidget) ==
  Body(DataUpload(StartPass, file), Statements, deptWidget, genderWidget)

\* ------------------------------------------------------------------- state
VARIABLES
  uploaded,       \* the file held by st.file_uploader, or NoFile
  dept_widget,    \* the value held by the Department selectbox
  gender_widget,  \* the value held by the Gender selectbox
  changes,        \* selector changes since the file was uploaded
  run             \* the last script run: its locals and the page it rendered

vars == <<uploaded, dept_widget, gender_widget, changes, run>>

\* opening the page runs the script with no file
Init ==
  /\ uploaded = NoFile
  /\ dept_widget = "All"
  /\ gender_widget = "All"
  /\ changes = 0
  /\ run = RunScript(NoFile, "All", "All")

\* the user picks a file; the selectboxes are new widgets showing "All"
Upload ==
  /\ ~uploaded.present
  /\ \E file \in Files :
       /\ uploaded' = file
       /\ run' = RunScript(file, "All", "All")
  /\ dept_widget' = "All"
  /\ gender_widget' = "All"
  /\ changes' = 0

\* the user removes the file; the selectboxes are not rendered and their
\* state is dropped
RemoveFile ==
  /\ uploaded.present
  /\ uploaded' = NoFile
  /\ dept_widget' = "All"
  /\ gender_widget' = "All"
  /\ changes' = 0
  /\ run' = RunScript(NoFile, "All", "All")

\* ChangeDepartment whose run filters the previous view instead of the table
ChangeDepartment_OnView ==
  /\ changes < MaxFilterChanges
  /\ \E v \in Range(run.dept_options) :
       /\ v # dept_widget
       /\ dept_widget' = v
       /\ run' = RunScript([uploaded EXCEPT !.rows = run.df_filtered], v,
                           gender_widget)
  /\ changes' = changes + 1
  /\ UNCHANGED <<uploaded, gender_widget>>

\* the user picks another option of the Department selectbox on the page
ChangeDepartment ==
  /\ changes < MaxFilterChanges
  /\ \E v \in Range(run.dept_options) :
       /\ v # dept_widget
       /\ dept_widget' = v
       /\ run' = RunScript(uploaded, v, gender_widget)
  /\ changes' = changes + 1
  /\ UNCHANGED <<uploaded, gender_widget>>

\* the user picks another option of the Gender selectbox on the page
ChangeGender ==
  /\ changes < MaxFilterChanges
  /\ \E v \in Range(run.gender_options) :
       /\ v # gender_widget
       /\ gender_widget' = v
       /\ run' = RunScript(uploaded, dept_widget, v)
  /\ changes' = changes + 1
  /\ UNCHANGED <<uploaded, dept_widget>>

Next == Upload \/ RemoveFile \/ ChangeDepartment \/ ChangeGender

Spec == Init /\ [][Next]_vars

\* ------------------------------------------------------------ properties
Rendered(what) == Contains(run.trace, what)

Sel == <<run.dept_filter, run.gender_filter>>

\* row r satisfies the selection <<dept, gender>>
Matches(r, dept, gender) ==
  /\ dept # "All" => r.Department = dept
  /\ gender # "All" => r.Gender = gender

\* the rows of a table that satisfy a selection, in table order
MatchingRows(rows, dept, gender) ==
  LET Keep(r) == Matches(r, dept, gender) IN SelectSeq(rows, Keep)

CompleteFile == uploaded.present /\ RequiredColumns \subseteq uploaded.columns

\* C1: after the filter step, df_filtered holds exactly the rows of the
\* table that satisfy the selection made with the two selectors (Department
\* equal to the chosen one when one is chosen AND Gender equal to the chosen
\* one when one is chosen); with ("All", "All") it is the whole table.
C1_FilterExact ==
  Rendered("df_filtered") =>
    /\ run.dept_filter = dept_widget
    /\ run.gender_filter = gender_widget
    /\ run.df_filtered = MatchingRows(uploaded.rows, dept_widget, gender_widget)
    /\ (dept_widget = "All" /\ gender_widget = "All"
          => run.df_filtered = uploaded.rows)

C1_Witness ==
  /\ Rendered("df_filtered")
  /\ run.dept_filter # "All"
  /\ run.gender_filter # "All"
  /\ Len(run.df_filtered) = 1
  /\ Len(uploaded.rows) = 2

\* the values of column c over the whole uploaded table
ColumnValues(c) == Range(Column(uploaded.rows, c))

StrictlySorted(seq) ==
  \A i \in 1..Len(seq) - 1 : StrRank(seq[i]) < StrRank(seq[i + 1])

OptionsOk(options, c) ==
  /\ options[1] = "All"
  /\ StrictlySorted(Tail(options))
  /\ Len(Tail(options)) = Cardinality(ColumnValues(c))
  /\ Range(Tail(options)) = ColumnValues(c)

\* C2: the options of each selector after the leading "All" are the
\* distinct values of its column over the full table, sorted, without
\* duplicates, as many as the column has unique values.
C2_OptionsSortedUnique ==
  /\ Rendered("dept_filter") => OptionsOk(run.dept_options, "Department")
  /\ Rendered("gender_filter") => OptionsOk(run.gender_options, "Gender")

C2_Witness ==
  /\ Rendered("gender_filter")
  /\ Len(uploaded.rows) = 2
  /\ uploaded.rows[1].Department = "Sales"
  /\ uploaded.rows[2].Department = "Eng"
  /\ uploaded.rows[1].Gender = "M"
  /\ uploaded.rows[2].Gender = "F"
  /\ run.dept_filter = "Sales"

\* C3: with no file the run shows the message and stops there: no selector,
\* filter, metric or chart statement is carried out; with a file holding the
\* required columns the run goes through filters, metrics and charts to the
\* end.
C3_HaltWithoutFile ==
  /\ ~uploaded.present =>
       /\ run.trace = <<"info">>
       /\ run.status = "stopped"
       /\ run.total = Unset
  /\ CompleteFile =>
       /\ ~Rendered("info")
       /\ run.status = "done"
       /\ \A what \in {"df_filtered", "metric_total", "metric_satisfaction",
                       "metric_performance", "metric_profiles", "chart1",
                       "chart2", "chart3", "chart4", "chart5", "chart6"} :
            Rendered(what)

C3_Witness ==
  /\ CompleteFile
  /\ run.status = "done"
  /\ Rendered("chart6")
  /\ Len(uploaded.rows) = 2

ChartName(n) ==
  CASE n = 1 -> "chart1" [] n = 2 -> "chart2" [] n = 3 -> "chart3"
    [] n = 4 -> "chart4" [] n = 5 -> "chart5" [] n = 6 -> "chart6"
    [] n = 7 -> "chart7"

ChartsRendered == {n \in 1..7 : Rendered(ChartName(n))}

\* C4: a run over a table with the required columns but no Attrition column
\* renders charts 1 to 6 only, shows the warning and reaches the end; with
\* the Attrition column it renders seven charts and no warning.
C4_AttritionOptional ==
  CompleteFile =>
    /\ run.status = "done"
    /\ Rendered("success")
    /\ IF "Attrition" \in uploaded.columns
         THEN ChartsRendered = 1..7 /\ ~Rendered("warning")
         ELSE ChartsRendered = 1..6 /\ Rendered("warning")
                /\ ~Rendered("subheader7")

C4_Witness ==
  /\ CompleteFile
  /\ "Attrition" \notin uploaded.columns
  /\ Len(uploaded.rows) >= 1
  /\ Rendered("warning")
  /\ run.status = "done"

\* C5: when the selection matches no row, the run does not raise: the row
\* count is 0, both means are NaN, the profile count is 0, every grouped
\* chart has no bar, slice, series or box, and the run reaches the end.
C5_EmptyViewDegrades ==
  (CompleteFile /\ Rendered("df_filtered") /\ run.df_filtered = <<>>) =>
    /\ run.status = "done"
    /\ run.total = 0
    /\ run.avg_satisfaction = NaN
    /\ run.avg_performance = NaN
    /\ run.profiles = 0
    /\ run.fig1 = {} /\ run.fig2 = {} /\ run.fig4 = {} /\ run.fig5 = {}
    /\ run.fig7 = {}
    /\ run.fig3 = 0

C5_Witness ==
  /\ CompleteFile
  /\ "Attrition" \in uploaded.columns
  /\ run.dept_filter # "All"
  /\ run.gender_filter # "All"
  /\ Len(uploaded.rows) = 2
  /\ run.df_filtered = <<>>
  /\ run.status = "done"

\* the sum of the counts of a set of (group, count) pairs
RECURSIVE SumCounts(_)
SumCounts(pairs) ==
  IF pairs = {} THEN 0
  ELSE LET p == CHOOSE q \in pairs : TRUE
       IN p[2] + SumCounts(pairs \ {p})

\* C6: in a run that reaches its end, the per-group counts of chart 1 (rows
\* per LPA_Profile) and of chart 2 (rows per Department) each sum to the row
\* count shown as Total Employees.
C6_GroupCountsSumToTotal ==
  Rendered("success") =>
    /\ SumCounts(run.fig1) = run.total
    /\ SumCounts(run.fig2) = run.total

\* C7: filtering the filtered view again with the same selection gives the
\* same view.
C7_FilterIdempotent ==
  Rendered("df_filtered") =>
    ApplyFilters(run.df_filtered, run.dept_filter, run.gender_filter)
      = run.df_filtered

C7_Witness ==
  /\ Rendered("df_filtered")
  /\ run.dept_filter # "All"
  /\ Len(run.df_filtered) = 2

\* the statements of the script in order, for a table with these columns
ScriptOrder(columns) ==
  <<"read_csv", "dept_filter", "gender_filter", "df_filtered",
    "metric_total", "metric_satisfaction", "metric_performance",
    "metric_profiles",
    "subheader1", "chart1", "subheader2", "chart2", "subheader3", "chart3",
    "subheader4", "chart4", "subheader5", "chart5", "subheader6", "chart6">>
    \o (IF "Attrition" \in columns THEN <<"subheader7", "chart7">>
        ELSE <<"warning">>)
    \o <<"success">>

\* the required columns each statement reads
Needs(what) ==
  CASE what = "dept_filter" -> {"Department"}
    [] what = "gender_filter" -> {"Gender"}
    [] what = "metric_satisfaction" -> {"Satisfaction"}
    [] what = "metric_performance" -> {"PerformanceScore"}
    [] what = "metric_profiles" -> {"LPA_Profile"}
    [] what = "chart1" -> {"LPA_Profile"}
    [] what = "chart2" -> {"Department"}
    [] what = "chart3" -> {"PerformanceScore", "Satisfaction", "LPA_Profile",
                           "Engagement", "EmployeeID", "Department"}
    [] what = "chart4" -> {"Stress", "Gender"}
    [] what = "chart5" -> {"Department", "WorkLifeBalance"}
    [] what = "chart6" -> num_cols
    [] what = "chart7" -> {"LPA_Profile"}
    [] OTHER -> {}

\* the position in the script of the first statement that reads a column the
\* table lacks
FirstFailing(columns) ==
  LET order == ScriptOrder(columns)
  IN CHOOSE k \in 1..Len(order) :
       /\ ~(Needs(order[k]) \subseteq columns)
       /\ \A j \in 1..k - 1 : Needs(order[j]) \subseteq columns

\* C8: with a required column absent nothing is validated beforehand: the
\* run raises exactly at the first statement, in script order, that reads an
\* absent column; every statement before it has been carried out and none
\* after it, the success message included.
C8_FailsAtFirstUse ==
  (uploaded.present /\ ~CompleteFile) =>
    LET order == ScriptOrder(uploaded.columns)
        k == FirstFailing(uploaded.columns)
    IN /\ run.status = "raised"
       /\ run.raisedAt = order[k]
       /\ run.trace = SubSeq(order, 1, k - 1)
       /\ ~Rendered("success")

C8_Witness ==
  /\ uploaded.present
  /\ "Age" \notin uploaded.columns
  /\ run.raisedAt = "chart6"
  /\ Rendered("chart5")
  /\ Len(uploaded.rows) = 1
  /\ changes >= 1

\* C9: across any interaction that keeps the file, the uploaded table is
\* unchanged, the run reads that table, and the new view holds exactly the
\* rows of that table matching the new selection (so it is a part of the
\* table and owes nothing to the previous selection or view).
C9_RecomputedFromTable ==
  [][(uploaded.present /\ uploaded'.present) =>
       /\ uploaded' = uploaded
       /\ run.df = uploaded
       /\ run'.df = uploaded
       /\ Contains(run'.trace, "df_filtered") =>
            /\ run'.df_filtered
                 = MatchingRows(uploaded.rows, dept_widget', gender_widget')
            /\ Range(run'.df_filtered) \subseteq Range(uploaded.rows)
            /\ Len(run'.df_filtered) <= Len(uploaded.rows)]_vars

\* two Department changes in a row: All -> one department -> the other
C9_Witness ==
  /\ changes = 2
  /\ run.dept_filter # "All"
  /\ run.gender_filter = "All"
  /\ Len(uploaded.rows) = 2
  /\ Len(run.df_filtered) = 1

OneConstrained ==
  (run.dept_filter = "All") # (run.gender_filter = "All")

BothConstrained == run.dept_filter # "All" /\ run.gender_filter # "All"

====
